---- MODULE Spec2Model ----
(***************************************************************************)
(* A model of the incoming-message polling loop of rocketapi               *)
(* (src/rocketchat.go): Chat construction and configuration, the           *)
(* goroutine started by Chat.GetIncomingMessage, its directory resolution  *)
(* (getCurrentRoom), its history fetches (getIMHistory,                    *)
(* getChannelsHistory), the dedup slice lastMessageID, and the unbuffered  *)
(* channel msgChan with its consumer.                                      *)
(*                                                                         *)
(* Time is counted in half seconds; time.Time.Format(time.RFC3339) keeps   *)
(* whole seconds only.  A Message is [ID, U, RID]: U stands for U.ID.      *)
(***************************************************************************)
EXTENDS Integers, Sequences, FiniteSets, TLC

VARIABLES
    chat,           \* the caller's Chat value: [Logger, UserID]
    lastLogger,     \* history: argument of the last SetLogger call ("none")
    loopChat,       \* the receiver copy captured by GetIncomingMessage
    pc,             \* position of the goroutine
    phase,          \* "ims" | "channels" | "none": which for loop is running
    idx,            \* 1-based index in current.ims / current.channels
    clock,          \* wall clock, in half seconds
    now,            \* the goroutine's local `now`
    maxSize,        \* the goroutine's local `maxSize`
    lastMessageID,  \* the goroutine's local `lastMessageID`
    current,        \* the goroutine's local `current`: [channels, ims]
    msgs,           \* resp.Messages of the response being ranged over
    j,              \* 1-based index of the current msg in msgs
    msgChan,        \* messages offered on msgChan and not yet received
    received,       \* consumer: the messages received since the cycle began
    oldest,         \* `oldest` argument of this cycle's last history call
    cycleStart,     \* history: clock when the current cycle began
    prevStart,      \* history: clock when the previous cycle began
    expected,       \* history: what this cycle's fetches oblige it to emit
    attempted,      \* history: conversations fetched in this cycle, in order
    failed,         \* history: conversations whose fetch failed this cycle
    resolveErr,     \* history: "none" | "rooms" | "ims" for this cycle
    recorded        \* history: identifiers appended to lastMessageID

vars == <<chat, lastLogger, loopChat, pc, phase, idx, clock, now, maxSize,
          lastMessageID, current, msgs, j, msgChan, received, oldest,
          cycleStart, prevStart, expected, attempted, failed,
          resolveErr, recorded>>

----------------------------------------------------------------------------
(* Bounds of the model.                                                    *)

\* `maxSize := 50` in the source (rocketchat.go:311), scaled down so that
\* the trim of lastMessageID is reached; every formula is stated in maxSize.
WindowBound == 4
\* Message identifiers of the full-loop specification.
NumIDs == 2
\* Message identifiers of the dedup-window specifications.
NumWinIDs == 5
\* Longest history response.
MaxResp == 2
\* The consumer stops receiving after this many messages.
MaxRecv == 6
\* The clock stops advancing here.
MaxClock == 2

\* "No value yet" for the timestamps kept as history.
None == 0 - 1

IMIDs == {"d1"}
ChannelIDs == {"c1", "c2"}
Loggers == {"l1"}
UserIDs == {"me"}
Authors == {"me", "other"}

SeqsUpTo(S, n) == UNION {[1..k -> S] : k \in 0..n}

Msg(id, u, rid) == [ID |-> id, U |-> u, RID |-> rid]

\* What the server may hold for a room: messages of that room.
RoomMsgs(ids, authors, rid) == {Msg(id, u, rid) : id \in ids, u \in authors}

----------------------------------------------------------------------------
(* Pure functions of the source.                                           *)

\* time.Time.Format(time.RFC3339): second resolution, fraction dropped.
Format(t) == t \div 2

index_Never(arr, data) == -1

\* index: 0-based position of the first occurrence, -1 if absent.
index(arr, data) ==
    IF \E k \in 1..Len(arr) : arr[k] = data
    THEN (CHOOSE k \in 1..Len(arr) :
             arr[k] = data /\ \A n \in 1..(k - 1) : arr[n] # data) - 1
    ELSE -1

record_KeepHalf(arr, id, maxSz) ==
    LET a == Append(arr, id)
    IN  IF Len(a) > maxSz
        THEN SubSeq(a, Len(a) - (maxSz \div 2) + 1, Len(a))
        ELSE a

record_NoTrim(arr, id, maxSz) == Append(arr, id)

\* lastMessageID = append(lastMessageID, msg.ID);
\* if len(lastMessageID) > maxSize { lastMessageID = lastMessageID[maxSize/2:] }
record(arr, id, maxSz) ==
    LET a == Append(arr, id)
    IN  IF Len(a) > maxSz
        THEN SubSeq(a, (maxSz \div 2) + 1, Len(a))
        ELSE a

Qualifies_NoSelfCheck(msg, userID, window) == index(window, msg.ID) = -1

\* msg.U.ID != chat.UserID && index(lastMessageID, msg.ID) == -1
Qualifies(msg, userID, window) ==
    msg.U # userID /\ index(window, msg.ID) = -1

\* NewChat: Logger is the default logger, Token and UserID are empty.
NewChat == [Logger |-> "default", UserID |-> ""]

\* SetLogger has a value receiver: the assignment is made to the callee's
\* copy, and the caller's Chat is what it was.
SetLoggerResult(c, logger) ==
    LET copy == [c EXCEPT !.Logger = logger]
    IN  c

\* Login has a pointer receiver: on success the caller's Chat is updated.
LoginResult(c, uid) == [c EXCEPT !.UserID = uid]

emptyRoom == [channels |-> <<>>, ims |-> <<>>]

getCurrentRoom_Partial(roomsOut, imsOut) ==
    IF roomsOut.err THEN [err |-> "rooms", room |-> emptyRoom]
    ELSE IF imsOut.err
         THEN [err |-> "ims",
               room |-> [channels |-> roomsOut.ids, ims |-> <<>>]]
         ELSE [err |-> "none",
               room |-> [channels |-> roomsOut.ids, ims |-> imsOut.ids]]

\* getCurrentRoom: GetRoom, then GetIMList; either error returns
\* currentRoom{} and the error.
getCurrentRoom(roomsOut, imsOut) ==
    IF roomsOut.err THEN [err |-> "rooms", room |-> emptyRoom]
    ELSE IF imsOut.err THEN [err |-> "ims", room |-> emptyRoom]
    ELSE [err |-> "none",
          room |-> [channels |-> roomsOut.ids, ims |-> imsOut.ids]]

\* getIMHistory / getChannelsHistory: a transport error, a 4xx status, a
\* body that does not decode and success=false all return
\* ChannelsHistoryResponse{} and an error; otherwise the decoded response.
getHistory(out) ==
    IF out.kind = "ok"
    THEN [err |-> FALSE, Messages |-> out.messages]
    ELSE [err |-> TRUE, Messages |-> <<>>]

getIMHistory(out) == getHistory(out)

getChannelsHistory(out) == getHistory(out)

----------------------------------------------------------------------------
(* Positions of the goroutine.                                             *)

EndPos == [pc |-> "end", phase |-> "none", idx |-> 0]

FetchPos(ph, k) == [pc |-> "fetch", phase |-> ph, idx |-> k]

FirstPos_ChannelsFirst(cur) ==
    IF Len(cur.channels) > 0 THEN FetchPos("channels", 1)
    ELSE IF Len(cur.ims) > 0 THEN FetchPos("ims", 1)
    ELSE EndPos

\* Entering `for _, im := range current.ims`, then the channels loop.
FirstPos(cur) ==
    IF Len(cur.ims) > 0 THEN FetchPos("ims", 1)
    ELSE IF Len(cur.channels) > 0 THEN FetchPos("channels", 1)
    ELSE EndPos

\* The next iteration after conversation k of loop ph is done.
AfterConv(ph, k, cur) ==
    IF ph = "ims"
    THEN IF k < Len(cur.ims) THEN FetchPos("ims", k + 1)
         ELSE IF Len(cur.channels) > 0 THEN FetchPos("channels", 1)
         ELSE EndPos
    ELSE IF k < Len(cur.channels) THEN FetchPos("channels", k + 1)
         ELSE EndPos

AfterFetchErr_Break(ph, k, cur) == EndPos

\* `if err == nil { ... }` has no else: a failed fetch falls through to the
\* next iteration.
AfterFetchErr(ph, k, cur) == AfterConv(ph, k, cur)

msgChanCap_Buffered == 0 + 1

\* make(chan Message): no buffer.
msgChanCap == 0

Conv == IF phase = "ims" THEN current.ims[idx] ELSE current.channels[idx]

\* What ranging over `messages` emits, starting from dedup slice `window`.
RECURSIVE Emits(_, _, _, _)
Emits(messages, window, userID, maxSz) ==
    IF messages = <<>> THEN <<>>
    ELSE LET m == Head(messages)
         IN  IF m.U # userID /\ ~(\E k \in 1..Len(window) : window[k] = m.ID)
             THEN <<m>> \o Emits(Tail(messages),
                                 record(window, m.ID, maxSz), userID, maxSz)
             ELSE Emits(Tail(messages), window, userID, maxSz)

----------------------------------------------------------------------------
(* The state after NewChat.                                                *)

Init ==
    /\ chat = NewChat
    /\ lastLogger = "none"
    /\ loopChat = NewChat
    /\ pc = "idle"
    /\ phase = "none"
    /\ idx = 0
    /\ clock = 0
    /\ now = 0
    /\ maxSize = 0
    /\ lastMessageID = <<>>
    /\ current = emptyRoom
    /\ msgs = <<>>
    /\ j = 0
    /\ msgChan = <<>>
    /\ received = <<>>
    /\ oldest = None
    /\ cycleStart = None
    /\ prevStart = None
    /\ expected = <<>>
    /\ attempted = <<>>
    /\ failed = {}
    /\ resolveErr = "none"
    /\ recorded = <<>>

loopVars == <<pc, phase, idx, now, maxSize, lastMessageID, current, msgs, j>>
histVars == <<cycleStart, prevStart, expected, attempted, failed,
              resolveErr>>

\* chat.SetLogger(l), before the loop is started.
SetLogger ==
    /\ pc = "idle"
    /\ \E l \in Loggers :
          /\ chat' = SetLoggerResult(chat, l)
          /\ lastLogger' = l
    /\ UNCHANGED <<loopChat, loopVars, clock, msgChan, received, oldest,
                   histVars, recorded>>

\* A successful chat.Login(username, password), before the loop is started.
Login ==
    /\ pc = "idle"
    /\ chat.UserID = ""
    /\ \E u \in UserIDs : chat' = LoginResult(chat, u)
    /\ UNCHANGED <<lastLogger, loopChat, loopVars, clock, msgChan, received,
                   oldest, histVars, recorded>>

\* chat.GetIncomingMessage(sleepTime): the channel is made and the goroutine
\* starts with now := time.Now(), lastMessageID := []string{}, maxSize.
GetIncomingMessage ==
    /\ pc = "idle"
    /\ loopChat' = chat
    /\ pc' = "top"
    /\ now' = clock
    /\ lastMessageID' = <<>>
    /\ maxSize' = WindowBound
    /\ msgChan' = <<>>
    /\ UNCHANGED <<chat, lastLogger, phase, idx, clock, current, msgs, j,
                   received, oldest, histVars, recorded>>

Advance(d) == IF clock + d <= MaxClock THEN clock + d ELSE clock

SetPos(p) == /\ pc' = p.pc /\ phase' = p.phase /\ idx' = p.idx

\* Top of the for loop: current, err := chat.getCurrentRoom(); Warn on error.
GetCurrentRoomStep(RoomOuts, IMOuts, Delays) ==
    /\ pc = "top"
    /\ \E ro \in RoomOuts, io \in IMOuts, d \in Delays :
          LET r == getCurrentRoom(ro, io)
          IN  /\ current' = r.room
              /\ resolveErr' = r.err
              /\ SetPos(FirstPos(r.room))
              /\ clock' = Advance(d)
    /\ prevStart' = cycleStart
    /\ cycleStart' = clock
    /\ received' = <<>>
    /\ expected' = <<>>
    /\ attempted' = <<>>
    /\ failed' = {}
    /\ oldest' = None
    /\ UNCHANGED <<msgs, j>>
    /\ UNCHANGED <<chat, lastLogger, loopChat, now, maxSize, lastMessageID,
                   msgChan, recorded>>

HistoryOuts(resps) ==
    {[kind |-> k, messages |-> r] : k \in {"ok", "nosuccess"}, r \in resps}
    \cup {[kind |-> k, messages |-> <<>>] : k \in {"neterr", "4xx", "badjson"}}

\* One history call of either for loop, with oldest = now.Format(RFC3339).
Fetch(IDs, Auth) ==
    /\ pc = "fetch"
    /\ \E out \in HistoryOuts(SeqsUpTo(RoomMsgs(IDs, Auth, Conv), MaxResp)) :
          LET resp == IF phase = "ims" THEN getIMHistory(out)
                      ELSE getChannelsHistory(out)
          IN  IF resp.err
              THEN /\ SetPos(AfterFetchErr(phase, idx, current))
                   /\ failed' = failed \cup {Conv}
                   /\ UNCHANGED <<msgs, j, expected>>
              ELSE /\ IF resp.Messages = <<>>
                      THEN /\ SetPos(AfterConv(phase, idx, current))
                           /\ UNCHANGED <<msgs, j>>
                      ELSE /\ pc' = "msgs"
                           /\ msgs' = resp.Messages
                           /\ j' = 1
                           /\ UNCHANGED <<phase, idx>>
                   /\ failed' = failed
                   /\ expected' = expected \o
                         Emits(resp.Messages, lastMessageID,
                               loopChat.UserID, maxSize)
    /\ oldest' = Format(now)
    /\ attempted' = Append(attempted, Conv)
    /\ UNCHANGED <<chat, lastLogger, loopChat, clock, now, maxSize,
                   lastMessageID, current, msgChan, received, cycleStart,
                   prevStart, resolveErr, recorded>>

\* After the body of `for _, msg := range resp.Messages` for msgs[j].
NextMsg ==
    IF j < Len(msgs)
    THEN /\ j' = j + 1
         /\ pc' = "msgs"
         /\ UNCHANGED <<phase, idx, msgs>>
    ELSE /\ SetPos(AfterConv(phase, idx, current))
         /\ msgs' = <<>>
         /\ j' = 0

\* The if of the loop body: skip the message, or offer it on msgChan.
ProcessMsg ==
    /\ pc = "msgs"
    /\ IF Qualifies(msgs[j], loopChat.UserID, lastMessageID)
       THEN /\ msgChan' = Append(msgChan, msgs[j])
            /\ pc' = "send"
            /\ UNCHANGED <<phase, idx, msgs, j>>
       ELSE /\ NextMsg
            /\ UNCHANGED msgChan
    /\ UNCHANGED <<chat, lastLogger, loopChat, clock, now, maxSize,
                   lastMessageID, current, received, oldest, histVars,
                   recorded>>

\* `msgChan <- msg` returns; the identifier is appended and the slice cut.
SendComplete ==
    /\ pc = "send"
    /\ Len(msgChan) <= msgChanCap
    /\ lastMessageID' = record(lastMessageID, msgs[j].ID, maxSize)
    /\ recorded' = Append(recorded, msgs[j].ID)
    /\ NextMsg
    /\ UNCHANGED <<chat, lastLogger, loopChat, clock, now, maxSize, current,
                   msgChan, received, oldest, histVars>>

\* The consumer receives from the channel.
Receive ==
    /\ msgChan # <<>>
    /\ Len(recorded) < MaxRecv
    /\ received' = Append(received, Head(msgChan))
    /\ msgChan' = Tail(msgChan)
    /\ UNCHANGED <<chat, lastLogger, loopChat, loopVars, clock, oldest,
                   histVars, recorded>>

\* now = time.Now(); time.Sleep(sleepTime)
EndCycle(Delays) ==
    /\ pc = "end"
    /\ now' = clock
    /\ \E d \in Delays : clock' = Advance(d)
    /\ pc' = "top"
    /\ UNCHANGED <<chat, lastLogger, loopChat, phase, idx, maxSize,
                   lastMessageID, current, msgs, j, msgChan, received, oldest,
                   histVars, recorded>>

----------------------------------------------------------------------------
(* Spec: configuration, directory failures and the clock, with one message *)
(* identifier.                                                             *)

RoomOuts == {[err |-> TRUE, ids |-> <<>>]}
            \cup {[err |-> FALSE, ids |-> s] : s \in {<<>>, <<"c1">>}}
IMOuts == {[err |-> TRUE, ids |-> <<>>]}
          \cup {[err |-> FALSE, ids |-> s] : s \in {<<>>, <<"d1">>}}

Next ==
    \/ SetLogger
    \/ Login
    \/ GetIncomingMessage
    \/ GetCurrentRoomStep(RoomOuts, IMOuts, {0, 1})
    \/ Fetch({1}, {"other"})
    \/ ProcessMsg
    \/ SendComplete
    \/ Receive
    \/ EndCycle({0, 1})

Spec == Init /\ [][Next]_vars

----------------------------------------------------------------------------
(* SpecEmit: a healthy directory of one direct-message room and two        *)
(* channels, history calls that may fail, messages of both authors.        *)

EmitRoomOuts == {[err |-> FALSE, ids |-> s] :
                    s \in {<<"c1", "c2">>, <<"c2", "c1">>}}
EmitIMOuts == {[err |-> FALSE, ids |-> <<"d1">>]}

NextEmit ==
    \/ Login
    \/ GetIncomingMessage
    \/ GetCurrentRoomStep(EmitRoomOuts, EmitIMOuts, {0})
    \/ Fetch(1..NumIDs, Authors)
    \/ ProcessMsg
    \/ SendComplete
    \/ Receive
    \/ EndCycle({0})

SpecEmit == Init /\ [][NextEmit]_vars

----------------------------------------------------------------------------
(* SpecWindow: one direct-message room and enough identifiers to fill the  *)
(* dedup slice and cut it.                                                 *)

WinRoomOuts == {[err |-> FALSE, ids |-> <<>>]}
WinIMOuts == {[err |-> FALSE, ids |-> <<"d1">>]}

NextWindow ==
    \/ GetIncomingMessage
    \/ GetCurrentRoomStep(WinRoomOuts, WinIMOuts, {0})
    \/ Fetch(1..NumWinIDs, {"other"})
    \/ ProcessMsg
    \/ SendComplete
    \/ Receive
    \/ EndCycle({0})

SpecWindow == Init /\ [][NextWindow]_vars

----------------------------------------------------------------------------
(* SpecDedup: the append-and-cut of lastMessageID on its own, for every    *)
(* bound from 2 to WindowBound, recording identifiers the slice does not   *)
(* hold (the only ones the loop records).                                  *)

InitDedup ==
    /\ chat = NewChat
    /\ lastLogger = "none"
    /\ loopChat = NewChat
    /\ pc = "idle"
    /\ phase = "none"
    /\ idx = 0
    /\ clock = 0
    /\ now = 0
    /\ maxSize \in 2..WindowBound
    /\ lastMessageID = <<>>
    /\ current = emptyRoom
    /\ msgs = <<>>
    /\ j = 0
    /\ msgChan = <<>>
    /\ received = <<>>
    /\ oldest = None
    /\ cycleStart = None
    /\ prevStart = None
    /\ expected = <<>>
    /\ attempted = <<>>
    /\ failed = {}
    /\ resolveErr = "none"
    /\ recorded = <<>>

RecordStep(IDs) ==
    /\ Len(recorded) < MaxRecv
    /\ \E id \in IDs :
          /\ index(lastMessageID, id) = -1
          /\ lastMessageID' = record(lastMessageID, id, maxSize)
          /\ recorded' = Append(recorded, id)
    /\ UNCHANGED <<chat, lastLogger, loopChat, pc, phase, idx, clock, now,
                   maxSize, current, msgs, j, msgChan, received, oldest,
                   histVars>>

NextDedup == RecordStep(1..NumWinIDs)

SpecDedup == InitDedup /\ [][NextDedup]_vars

----------------------------------------------------------------------------
(* Helpers of the properties.                                              *)

Range(q) == {q[k] : k \in 1..Len(q)}

IsPrefix(p, q) == Len(p) <= Len(q) /\ \A k \in 1..Len(p) : p[k] = q[k]

LastN(q, n) == SubSeq(q, Len(q) - n + 1, Len(q))

\* Messages put on the output channel since the cycle began.
Emitted == received \o msgChan

\* Identifiers put on the output channel since the loop started.
EmittedIDs == IF pc = "send" THEN Append(recorded, msgs[j].ID) ELSE recorded

----------------------------------------------------------------------------
(* C1.  Every history call of cycle N+1 uses as `oldest` the time at which *)
(* cycle N began.  The code sets the cursor at the end of cycle N.         *)
C1_CursorIsPrevCycleStart ==
    (oldest # None /\ prevStart # None) => oldest = Format(prevStart)

(* C2 as stated.  When the length after an append exceeds the bound B,     *)
(* exactly the most recent B/2 identifiers are left; with B = 4 and the    *)
(* sequence 1,2,3,4,5 the slice is <<4, 5>>.                               *)
C2_KeepsHalf ==
    /\ Len(recorded) = maxSize + 1 =>
          lastMessageID = LastN(recorded, maxSize \div 2)
    /\ (maxSize = 4 /\ recorded = <<1, 2, 3, 4, 5>>) =>
          /\ lastMessageID = <<4, 5>>
          /\ index(lastMessageID, 1) = -1
          /\ index(lastMessageID, 5) # -1

(* C2 amended.  Recording appends the identifier; when the length after    *)
(* the append exceeds the bound B, the first B/2 identifiers are dropped   *)
(* and the most recent B + 1 - B/2 are left; with B = 4 and the sequence   *)
(* 1,2,3,4,5 the slice is <<3, 4, 5>>, 1 is not contained and 5 is.        *)
C2_DropsFirstHalf ==
    /\ Len(lastMessageID) <= Len(recorded)
    /\ lastMessageID = LastN(recorded, Len(lastMessageID))
    /\ Len(recorded) <= maxSize => lastMessageID = recorded
    /\ Len(recorded) = maxSize + 1 =>
          lastMessageID = LastN(recorded, maxSize + 1 - (maxSize \div 2))
    /\ (maxSize = 4 /\ recorded = <<1, 2, 3, 4, 5>>) =>
          /\ lastMessageID = <<3, 4, 5>>
          /\ index(lastMessageID, 1) = -1
          /\ index(lastMessageID, 5) # -1

C2_Witness == maxSize = 4 /\ recorded = <<1, 2, 3, 4, 5>>

(* C3.  Between two emissions of the same identifier at least maxSize/2    *)
(* other distinct identifiers are emitted; so a message returned again     *)
(* while fewer have been emitted since is not emitted again.               *)
C3_NoRepeatWithinRetention ==
    \A a \in 1..Len(EmittedIDs) : \A b \in (a + 1)..Len(EmittedIDs) :
        EmittedIDs[a] = EmittedIDs[b] =>
            Cardinality({EmittedIDs[k] : k \in (a + 1)..(b - 1)}
                        \ {EmittedIDs[a]}) >= maxSize \div 2

C3_Witness ==
    \E a \in 1..Len(recorded) : \E b \in (a + 1)..Len(recorded) :
        recorded[a] = recorded[b]

(* C4.  No message authored by the session's own user is put on the output *)
(* channel, and no such message's identifier is appended to the dedup      *)
(* slice.                                                                  *)
C4_SelfNeverEmitted ==
    /\ [](\A m \in Range(Emitted) : m.U # loopChat.UserID)
    /\ [][recorded' # recorded =>
             /\ msgs[j].U # loopChat.UserID
             /\ recorded' = Append(recorded, msgs[j].ID)]_vars
    /\ [][lastMessageID' # lastMessageID => recorded' # recorded]_vars

C4_Witness ==
    /\ loopChat.UserID = "me"
    /\ pc \in {"msgs", "send"}
    /\ j = 2
    /\ msgs[1].U = "me"
    /\ index(lastMessageID, msgs[1].ID) = -1
    /\ msgs[2].U = "other"
    /\ msgs[1] \notin Range(Emitted)

(* C5.  The dedup slice never holds more than maxSize identifiers.         *)
C5_WindowBounded == pc # "idle" => Len(lastMessageID) <= maxSize

C5_Witness ==
    /\ pc # "idle"
    /\ Len(recorded) > maxSize
    /\ Len(lastMessageID) < Len(recorded)

(* C6.  A failed history call does not end the cycle: every conversation   *)
(* of the directory is still fetched and its qualifying messages emitted,  *)
(* nothing of the failed conversation is emitted, and the loop goes on to  *)
(* its sleep and the next cycle.                                           *)
C6_FetchFailureIsolated ==
    /\ \A m \in Range(Emitted) : m.RID \notin failed
    /\ IsPrefix(attempted, current.ims \o current.channels)
    /\ pc = "end" =>
          /\ attempted = current.ims \o current.channels
          /\ received = expected
          /\ ENABLED EndCycle({0})

C6_Witness ==
    /\ pc = "end"
    /\ attempted = <<"d1", "c1", "c2">>
    /\ failed = {"c1"}
    /\ \E m \in Range(received) : m.RID = "d1"
    /\ \E m \in Range(received) : m.RID = "c2"

(* C7.  When GetRoom or GetIMList fails, the cycle fetches nothing, emits  *)
(* nothing and leaves the dedup slice as it was, and the loop goes on to   *)
(* its sleep and the next cycle.                                           *)
C7_DirectoryFailureNoOp ==
    /\ [](resolveErr # "none" =>
             /\ current = emptyRoom
             /\ pc \in {"end", "top"}
             /\ attempted = <<>>
             /\ oldest = None
             /\ Emitted = <<>>
             /\ (pc = "end" => ENABLED EndCycle({0})))
    /\ [][resolveErr' # "none" =>
             /\ lastMessageID' = lastMessageID
             /\ recorded' = recorded]_vars
    /\ [][(resolveErr # "none" /\ pc = "end") => pc' = "top"]_vars

C7_Witness ==
    /\ resolveErr = "ims"
    /\ pc = "top"
    /\ lastMessageID # <<>>

(* C8.  What a cycle emits is, in order, the qualifying messages of its    *)
(* successful fetches, the direct-message rooms in directory order first   *)
(* and the channels in directory order after them.                         *)
C8_EmissionOrder ==
    /\ IsPrefix(Emitted, expected)
    /\ IsPrefix(attempted, current.ims \o current.channels)
    /\ pc = "end" => Emitted = expected
    /\ \A a \in 1..Len(Emitted) : \A b \in (a + 1)..Len(Emitted) :
          ~(Emitted[a].RID \in ChannelIDs /\ Emitted[b].RID \in IMIDs)

C8_Witness ==
    /\ pc = "end"
    /\ Len(received) = 2
    /\ received[1].RID = "d1"
    /\ received[2].RID = "c2"
    /\ current.channels = <<"c2", "c1">>

(* C9.  The send blocks until the consumer has received the message: at    *)
(* most one message is in flight, the goroutine does nothing while it is,  *)
(* and an identifier is appended to the dedup slice only after its message *)
(* was received.                                                           *)
C9_BlockingHandoff ==
    /\ [](Len(msgChan) <= 1 /\ (msgChan # <<>> => pc = "send"))
    /\ [][msgChan # <<>> =>
             UNCHANGED <<loopVars, oldest, attempted, expected, recorded>>]_vars
    /\ [][recorded' # recorded =>
             /\ msgChan = <<>>
             /\ received # <<>>
             /\ received[Len(received)] = msgs[j]]_vars

C9_Witness ==
    /\ pc = "send"
    /\ Len(msgChan) = 1
    /\ Len(received) = 1

(* C10.  After SetLogger(l) the Chat's Logger is l.  The code assigns to   *)
(* a copy.                                                                 *)
C10_SetLoggerTakesEffect ==
    lastLogger # "none" => chat.Logger = lastLogger

====
